---- MODULE Spec2Model ----
(***************************************************************************)
(* A state-machine model of src/simulation.ts: the Simulation object, its  *)
(* input handlers, the animation-frame loop and the RK4 integrator.        *)
(*                                                                         *)
(* Numbers.  The program computes in IEEE doubles.  The model computes in  *)
(* fixed point: a world-unit quantity q (a position, a velocity, an        *)
(* acceleration, a mass, dt) is the integer nearest to 1000 * q.  Every    *)
(* value the program stores is rounded to that grid once, after the        *)
(* expression producing it has been evaluated exactly; screen coordinates  *)
(* and the view scale are whole pixels.  Colour, hue and id of a body are  *)
(* read by draw() alone and are left out.                                  *)
(*                                                                         *)
(* Control.  JavaScript runs each callback to completion: loop() and a     *)
(* handler never interleave.  pc is the position inside loop() and         *)
(* integrate(); pc = "idle" is the event loop waiting between callbacks.   *)
(***************************************************************************)
EXTENDS Integers, Sequences, FiniteSets, TLC

VARIABLES
    bodies,       \* this.bodies: sequence of [mass, pos, vel, trail]
    dt,           \* this.dt
    scale,        \* this.scale
    offsetX,      \* this.offsetX
    offsetY,      \* this.offsetY
    paused,       \* this.paused
    isDragging,   \* this.isDragging
    dragStart,    \* this.dragStart: <<>> is null, <<v>> is the Vec2 v
    dragCurrent,  \* this.dragCurrent: <<>> is null, <<v>> is the Vec2 v
    pc,           \* position in loop() / integrate(), or "idle"
    i,            \* loop(): the for-loop counter
    argDt,        \* integrate(): the parameter dt
    state,        \* integrate(): the local state vector
    k1, k2, k3, k4, \* integrate(): the four derivative vectors
    frames,       \* number of unpaused frames run so far (bounds the run)
    events        \* number of input events handled so far (bounds the run)

vars == <<bodies, dt, scale, offsetX, offsetY, paused, isDragging, dragStart,
          dragCurrent, pc, i, argDt, state, k1, k2, k3, k4, frames>>

simFields == <<bodies, dt, scale, offsetX, offsetY, paused, isDragging,
               dragStart, dragCurrent>>
locals == <<argDt, state, k1, k2, k3, k4>>

----------------------------------------------------------------------------
(* Bounds of the model *)

\* unpaused frames in a run of Spec
MaxFrames == 2
\* input events in a run
MaxEvents == 3
\* unpaused frames in a run of SpecTrail
MaxTrailFrames == 39

(* Program constants, in fixed point *)

\* one world unit
Unit == 1000
\* dt: number = 0.015
DtInit == 15
\* SOFTENING = 0.1, as a squared length (0.1 * Unit * Unit)
SOFTENING == 100000
\* G = 1 (a pure factor)
G == 1
\* a loop bound that is one short
SubStepsOff == 3
\* for (let i = 0; i < 4; i++)
SubSteps == 4
\* trail threshold 0.05, squared (50 * 50)
TrailMinSq == 2500
\* trail cap
TrailMax == 150

----------------------------------------------------------------------------
(* Arithmetic *)

\* a / b rounded to the nearest integer (b > 0), halves upwards
RDiv(a, b) == (2 * a + b) \div (2 * b)

RECURSIVE SqrtSearch(_, _, _)
SqrtSearch(n, lo, hi) ==
    IF lo >= hi THEN lo
    ELSE LET mid == (lo + hi + 1) \div 2
         IN  IF mid * mid <= n THEN SqrtSearch(n, mid, hi)
                               ELSE SqrtSearch(n, lo, mid - 1)

\* Math.sqrt on the grid: the integer square root
Sqrt(n) == SqrtSearch(n, 0, 46340)

(* class Vec2 *)
Vec2(x, y) == [x |-> x, y |-> y]
VAdd(a, b) == Vec2(a.x + b.x, a.y + b.y)
VSub(a, b) == Vec2(a.x - b.x, a.y - b.y)
\* scale(s) with s = num / den
VScale(a, num, den) == Vec2(RDiv(a.x * num, den), RDiv(a.y * num, den))
\* mag() squared: mag() > t is decided as MagSq > t * t, exactly
MagSq(a) == a.x * a.x + a.y * a.y

Null == <<>>
Some(v) == <<v>>

Body(m, p, v) == [mass |-> m, pos |-> p, vel |-> v, trail |-> <<>>]

----------------------------------------------------------------------------
(* Inputs: what the environment can supply *)

\* window.innerWidth, window.innerHeight
WindowSizes == {<<800, 600>>, <<1000, 600>>}

\* e.clientX, e.clientY of a mouse event
MousePoints == {<<400, 300>>, <<150, 300>>}

\* outputs of Math.random() (0 <= r < 1, on the grid) during one
\* loadScenario('random'): five draws per body, five bodies
RandomRunA == << 0, 999, 500, 500,   0,
               999,   0, 250, 750, 999,
               500, 500,   0, 999, 500,
               250, 750, 999,   0, 123,
               750, 250, 600, 400, 877 >>
RandomRunB == << 100, 200, 999,   0, 999,
               900, 800,   0, 999,   0,
               500, 501, 500, 500, 500,
               300, 700, 450, 550,   1,
               700, 300, 550, 450, 998 >>
RandomRuns == {RandomRunA, RandomRunB}

\* output of Math.random() for the mass of a launched body
LaunchDraws == {0, 999}

----------------------------------------------------------------------------
(* Coordinates *)

\* screenToWorld(sx, sy)
screenToWorld(sx, sy) ==
    Vec2(RDiv((sx - offsetX) * Unit, scale), RDiv((sy - offsetY) * Unit, scale))

----------------------------------------------------------------------------
(* Scenarios *)

\* a random mass centred on 0, as the positions and velocities are
RandomMassOff(r) == r - 500
\* the mass handed to addBody by loadScenario('random'): Math.random() + 0.5
RandomMass(r) == r + 500

\* the mass handed to addBody by the mouseup handler: Math.random() * 0.5 + 0.5
LaunchMass(r) == RDiv(r, 2) + 500

Figure8Bodies ==
    LET p1 == Vec2(970, -243)
        v1 == Vec2(466, 432)
        v3 == Vec2(-2 * v1.x, -2 * v1.y)
    IN  << Body(1 * Unit, p1, VScale(v3, -1, 2)),
           Body(1 * Unit, VScale(p1, -1, 1), VScale(v3, -1, 2)),
           Body(1 * Unit, Vec2(0, 0), v3) >>

PythagoreanBodies ==
    << Body(3 * Unit, Vec2(1 * Unit, 3 * Unit), Vec2(0, 0)),
       Body(4 * Unit, Vec2(-2 * Unit, -1 * Unit), Vec2(0, 0)),
       Body(5 * Unit, Vec2(1 * Unit, -1 * Unit), Vec2(0, 0)) >>

SolarBodies ==
    << Body(10 * Unit, Vec2(0, 0), Vec2(0, 0)),
       Body(1 * Unit, Vec2(3 * Unit, 0), Vec2(0, 1800)),
       Body(2 * Unit, Vec2(5 * Unit, 0), Vec2(0, 1400)) >>

\* the five bodies of the random scenario, from one run of draws
RandomBodies(r) ==
    [n \in 1..5 |->
        LET o == 5 * (n - 1)
        IN  Body(RandomMass(r[o + 5]),
                 Vec2((r[o + 1] - 500) * 4, (r[o + 2] - 500) * 4),
                 Vec2(RDiv(r[o + 3] - 500, 2), RDiv(r[o + 4] - 500, 2)))]

ScenarioTypes == {"figure8", "pythagorean", "random", "solar"}

ScenarioScale(type) ==
    CASE type = "figure8" -> 250
      [] type = "pythagorean" -> 80
      [] type = "random" -> 150
      [] type = "solar" -> 100

ScenarioBodies(type, r) ==
    CASE type = "figure8" -> Figure8Bodies
      [] type = "pythagorean" -> PythagoreanBodies
      [] type = "random" -> RandomBodies(r)
      [] type = "solar" -> SolarBodies

\* addBody(pos, vel, mass): the list after the push
addBody(pos, vel, mass) == Append(bodies, Body(mass, pos, vel))

----------------------------------------------------------------------------
(* Event dispatch *)

\* a dispatch that could interrupt a running callback
HandlerMayRunAnytime == TRUE
\* A listener registered with addEventListener runs as a callback of its own,
\* when no other callback is running.
HandlerMayRun == pc = "idle"

\* window 'resize' -> resize()
resize ==
    /\ HandlerMayRun
    /\ events < MaxEvents
    /\ events' = events + 1
    /\ \E w \in WindowSizes :
          /\ offsetX' = w[1] \div 2
          /\ offsetY' = w[2] \div 2
    /\ UNCHANGED <<bodies, dt, scale, paused, isDragging, dragStart,
                   dragCurrent, pc, i, locals, frames>>

\* loadScenario(type), from one of the four scenario buttons
loadScenario ==
    /\ HandlerMayRun
    /\ events < MaxEvents
    /\ events' = events + 1
    /\ \E type \in ScenarioTypes :
          /\ scale' = ScenarioScale(type)
          /\ \E r \in (IF type = "random" THEN RandomRuns ELSE {RandomRunA}) :
                bodies' = ScenarioBodies(type, r)
    /\ paused' = FALSE
    /\ UNCHANGED <<dt, offsetX, offsetY, isDragging, dragStart, dragCurrent,
                   pc, i, locals, frames>>

\* btn-clear
ClearClick ==
    /\ HandlerMayRun
    /\ events < MaxEvents
    /\ events' = events + 1
    /\ bodies' = <<>>
    /\ UNCHANGED <<dt, scale, offsetX, offsetY, paused, isDragging, dragStart,
                   dragCurrent, pc, i, locals, frames>>

\* btn-pause
PauseClick ==
    /\ HandlerMayRun
    /\ events < MaxEvents
    /\ events' = events + 1
    /\ paused' = ~paused
    /\ UNCHANGED <<bodies, dt, scale, offsetX, offsetY, isDragging, dragStart,
                   dragCurrent, pc, i, locals, frames>>

\* canvas 'mousedown'
MouseDown ==
    /\ HandlerMayRun
    /\ events < MaxEvents
    /\ events' = events + 1
    /\ \E p \in MousePoints :
          /\ dragStart' = Some(screenToWorld(p[1], p[2]))
          /\ dragCurrent' = dragStart'
    /\ isDragging' = TRUE
    /\ UNCHANGED <<bodies, dt, scale, offsetX, offsetY, paused, pc, i, locals,
                   frames>>

\* canvas 'mousemove'
MouseMove ==
    /\ HandlerMayRun
    /\ events < MaxEvents
    /\ events' = events + 1
    /\ \E p \in MousePoints :
          dragCurrent' = IF isDragging THEN Some(screenToWorld(p[1], p[2]))
                                       ELSE dragCurrent
    /\ UNCHANGED <<bodies, dt, scale, offsetX, offsetY, paused, isDragging,
                   dragStart, pc, i, locals, frames>>

\* the test of the mouseup handler
LaunchReady == isDragging /\ dragStart # Null /\ dragCurrent # Null

\* a mouseup handler that forgets to drop the drag points
MouseUpKeepsDrag ==
    /\ HandlerMayRun
    /\ events < MaxEvents
    /\ events' = events + 1
    /\ IF LaunchReady
       THEN \E r \in LaunchDraws :
                 LET pullVector == VSub(dragStart[1], dragCurrent[1])
                     launchVel == VScale(pullVector, 2, 1)
                 IN  bodies' = addBody(dragStart[1], launchVel, LaunchMass(r))
       ELSE UNCHANGED bodies
    /\ isDragging' = FALSE
    /\ UNCHANGED <<dt, scale, offsetX, offsetY, paused, dragStart, dragCurrent,
                   pc, i, locals, frames>>

\* canvas 'mouseup'
MouseUp ==
    /\ HandlerMayRun
    /\ events < MaxEvents
    /\ events' = events + 1
    /\ IF LaunchReady
       THEN \E r \in LaunchDraws :
                 LET pullVector == VSub(dragStart[1], dragCurrent[1])
                     launchVel == VScale(pullVector, 2, 1)
                 IN  bodies' = addBody(dragStart[1], launchVel, LaunchMass(r))
       ELSE UNCHANGED bodies
    /\ isDragging' = FALSE
    /\ dragStart' = Null
    /\ dragCurrent' = Null
    /\ UNCHANGED <<dt, scale, offsetX, offsetY, paused, pc, i, locals, frames>>

----------------------------------------------------------------------------
(* RK4 core *)

\* f * d for one pair: f = (G * mass) / Math.pow(distSq + SOFTENING, 1.5),
\* with D = distSq + SOFTENING and pow(D, 1.5) = D * sqrt(D).  The quotient
\* by sqrt(D) is rounded to the grid before the quotient by D is taken.
PairAccel(mass, d, D) ==
    LET q == RDiv(G * mass * Unit, Sqrt(D))
    IN  RDiv(q * d * 100, RDiv(D, 10))

\* ax (c = 0) or ay (c = 1) of body b (1-based) in state vector st:
\* the sum over the bodies j # b, j = from..numBodies
RECURSIVE AccelSum(_, _, _, _)
AccelSum(st, b, c, from) ==
    IF from > Len(bodies) THEN 0
    ELSE LET iIdx == 4 * (b - 1)
             jIdx == 4 * (from - 1)
             dx == st[jIdx + 1] - st[iIdx + 1]
             dy == st[jIdx + 2] - st[iIdx + 2]
             distSq == dx * dx + dy * dy
             term == IF from = b THEN 0
                     ELSE PairAccel(bodies[from].mass,
                                    IF c = 0 THEN dx ELSE dy,
                                    distSq + SOFTENING)
         IN  term + AccelSum(st, b, c, from + 1)

\* getDerivatives(state): entries past 4 * numBodies keep the 0 a new
\* Float64Array holds
getDerivatives(st) ==
    [n \in 1..Len(st) |->
        LET b == ((n - 1) \div 4) + 1
            c == (n - 1) % 4
        IN  IF b > Len(bodies) THEN 0
            ELSE IF c < 2 THEN st[n + 2]
            ELSE AccelSum(st, b, c - 2, 1)]

\* this.bodies.forEach(b => state.push(b.pos.x, b.pos.y, b.vel.x, b.vel.y))
Flatten(bs) ==
    [n \in 1..(4 * Len(bs)) |->
        LET b == bs[((n - 1) \div 4) + 1]
            c == (n - 1) % 4
        IN  CASE c = 0 -> b.pos.x [] c = 1 -> b.pos.y
              [] c = 2 -> b.vel.x [] c = 3 -> b.vel.y]

\* state.map((v, i) => v + k[i] * dt * num / den): den = 2 for the half step
Stage(st, k, h, den) ==
    [n \in 1..Len(st) |-> st[n] + RDiv(k[n] * h, den * Unit)]

\* a combination that forgets the weights 2 of k2 and k3
CombineEqualWeights(st, h, a, b, c, d) ==
    [n \in 1..Len(st) |->
        st[n] + RDiv(h * (a[n] + b[n] + c[n] + d[n]), 6 * Unit)]
\* state[i] += (dt / 6.0) * (k1[i] + 2*k2[i] + 2*k3[i] + k4[i])
Combine(st, h, a, b, c, d) ==
    [n \in 1..Len(st) |->
        st[n] + RDiv(h * (a[n] + 2 * b[n] + 2 * c[n] + d[n]), 6 * Unit)]

\* shift() taken for pop(): at the cap the newest point is dropped
TrailPopsNewest(trail, p) ==
    IF trail = <<>> \/ MagSq(VSub(p, trail[Len(trail)])) > TrailMinSq
    THEN LET pushed == Append(trail, p)
         IN  IF Len(pushed) > TrailMax THEN SubSeq(pushed, 1, TrailMax)
                                       ELSE pushed
    ELSE trail
\* the trail of a body after one write-back at position p
RecordTrail(trail, p) ==
    IF trail = <<>> \/ MagSq(VSub(p, trail[Len(trail)])) > TrailMinSq
    THEN LET pushed == Append(trail, p)
         IN  IF Len(pushed) > TrailMax THEN Tail(pushed) ELSE pushed
    ELSE trail

\* this.bodies.forEach((b, i) => { ... }): the list after the write-back
WriteBack(bs, st) ==
    [n \in 1..Len(bs) |->
        LET iIdx == 4 * (n - 1)
            p == Vec2(st[iIdx + 1], st[iIdx + 2])
        IN  [mass |-> bs[n].mass,
             pos |-> p,
             vel |-> Vec2(st[iIdx + 3], st[iIdx + 4]),
             trail |-> IF ~paused THEN RecordTrail(bs[n].trail, p)
                                  ELSE bs[n].trail]]

----------------------------------------------------------------------------
(* loop() and integrate(), statement by statement *)

InIntegrate == pc \in {"integrate", "k1", "k2", "k3", "k4", "combine", "writeback"}

\* where integrate() returns to: the next round of the for loop, or draw()
AfterCall == IF i + 1 < SubSteps THEN "integrate" ELSE "draw"

\* loop(): if (!this.paused) { for (let i = 0; ...) } -- ignoring the flag
LoopEntryIgnoresPause ==
    /\ pc = "loop"
    /\ pc' = "integrate" /\ i' = 0 /\ frames' = frames + 1
    /\ UNCHANGED <<simFields, locals, events>>

\* loop(): if (!this.paused) { for (let i = 0; ...) }
LoopEntry ==
    /\ pc = "loop"
    /\ IF ~paused
       THEN pc' = "integrate" /\ i' = 0 /\ frames' = frames + 1
       ELSE pc' = "draw" /\ UNCHANGED <<i, frames>>
    /\ UNCHANGED <<simFields, locals, events>>

\* integrate(dt) without its first line
IntegrateEnterNoReturn ==
    /\ pc = "integrate"
    /\ argDt' = dt
    /\ state' = Flatten(bodies)
    /\ pc' = "k1"
    /\ UNCHANGED <<simFields, i, k1, k2, k3, k4, frames, events>>

\* this.integrate(this.dt): the call, the empty-list return, the flattening
IntegrateEnter ==
    /\ pc = "integrate"
    /\ IF Len(bodies) = 0
       THEN /\ pc' = AfterCall
            /\ i' = i + 1
            /\ UNCHANGED <<argDt, state>>
       ELSE /\ argDt' = dt
            /\ state' = Flatten(bodies)
            /\ pc' = "k1"
            /\ UNCHANGED i
    /\ UNCHANGED <<simFields, k1, k2, k3, k4, frames, events>>

\* const k1 = this.getDerivatives(state)
StageK1 ==
    /\ pc = "k1"
    /\ k1' = getDerivatives(state)
    /\ pc' = "k2"
    /\ UNCHANGED <<simFields, i, argDt, state, k2, k3, k4, frames, events>>

\* a stage that stores its intermediate state in the bodies
StageK2WritesBodies ==
    /\ pc = "k2"
    /\ k2' = getDerivatives(Stage(state, k1, argDt, 2))
    /\ bodies' = WriteBack(bodies, Stage(state, k1, argDt, 2))
    /\ pc' = "k3"
    /\ UNCHANGED <<dt, scale, offsetX, offsetY, paused, isDragging, dragStart,
                   dragCurrent, i, argDt, state, k1, k3, k4, frames, events>>

\* const stateK2 = ...; const k2 = this.getDerivatives(stateK2)
StageK2 ==
    /\ pc = "k2"
    /\ k2' = getDerivatives(Stage(state, k1, argDt, 2))
    /\ pc' = "k3"
    /\ UNCHANGED <<simFields, i, argDt, state, k1, k3, k4, frames, events>>

\* const stateK3 = ...; const k3 = this.getDerivatives(stateK3)
StageK3 ==
    /\ pc = "k3"
    /\ k3' = getDerivatives(Stage(state, k2, argDt, 2))
    /\ pc' = "k4"
    /\ UNCHANGED <<simFields, i, argDt, state, k1, k2, k4, frames, events>>

\* const stateK4 = ...; const k4 = this.getDerivatives(stateK4)
StageK4 ==
    /\ pc = "k4"
    /\ k4' = getDerivatives(Stage(state, k3, argDt, 1))
    /\ pc' = "combine"
    /\ UNCHANGED <<simFields, i, argDt, state, k1, k2, k3, frames, events>>

\* for (let i = 0; i < state.length; i++) state[i] += ...
CombineStep ==
    /\ pc = "combine"
    /\ state' = Combine(state, argDt, k1, k2, k3, k4)
    /\ pc' = "writeback"
    /\ UNCHANGED <<simFields, i, argDt, k1, k2, k3, k4, frames, events>>

\* the write-back forEach, then the return into the for loop of loop();
\* the locals of integrate() die with the call
WriteBackStep ==
    /\ pc = "writeback"
    /\ bodies' = WriteBack(bodies, state)
    /\ pc' = AfterCall
    /\ i' = i + 1
    /\ argDt' = 0 /\ state' = <<>>
    /\ k1' = <<>> /\ k2' = <<>> /\ k3' = <<>> /\ k4' = <<>>
    /\ UNCHANGED <<dt, scale, offsetX, offsetY, paused, isDragging, dragStart,
                   dragCurrent, frames, events>>

\* this.draw(); requestAnimationFrame(() => this.loop()): draw() writes the
\* canvas only
DrawStep ==
    /\ pc = "draw"
    /\ pc' = "idle"
    /\ i' = 0
    /\ UNCHANGED <<simFields, locals, frames, events>>

\* the callback handed to requestAnimationFrame runs: loop() starts
AnimationFrame(limit) ==
    /\ pc = "idle"
    /\ paused \/ frames < limit
    /\ pc' = "loop"
    /\ UNCHANGED <<simFields, i, locals, frames, events>>

----------------------------------------------------------------------------
(* The program *)

\* new Simulation(): resize(), setupInputs(), loadScenario('figure8'), and
\* loop() about to run its first frame
Init ==
    /\ \E w \in WindowSizes : offsetX = w[1] \div 2 /\ offsetY = w[2] \div 2
    /\ bodies = Figure8Bodies
    /\ scale = ScenarioScale("figure8")
    /\ dt = DtInit
    /\ paused = FALSE
    /\ isDragging = FALSE
    /\ dragStart = Null
    /\ dragCurrent = Null
    /\ pc = "loop"
    /\ i = 0
    /\ argDt = 0
    /\ state = <<>>
    /\ k1 = <<>> /\ k2 = <<>> /\ k3 = <<>> /\ k4 = <<>>
    /\ frames = 0
    /\ events = 0

Handlers ==
    \/ resize
    \/ loadScenario
    \/ ClearClick
    \/ PauseClick
    \/ MouseDown
    \/ MouseMove
    \/ MouseUp

Frame ==
    \/ LoopEntry
    \/ IntegrateEnter
    \/ StageK1
    \/ StageK2
    \/ StageK3
    \/ StageK4
    \/ CombineStep
    \/ WriteBackStep
    \/ DrawStep

Next == Handlers \/ Frame \/ AnimationFrame(MaxFrames)

Spec == Init /\ [][Next]_vars

----------------------------------------------------------------------------
(* A second program run: a body launched onto an empty canvas, followed    *)
(* long enough for its trail to fill.  The initial states are those the    *)
(* program is in after a scenario button (figure8 or pythagorean), Clear,  *)
(* and one drag from p to q released, with the simulation waiting for its  *)
(* next frame.                                                             *)

InitTrail ==
    /\ \E w \in WindowSizes : offsetX = w[1] \div 2 /\ offsetY = w[2] \div 2
    /\ scale \in {ScenarioScale("figure8"), ScenarioScale("pythagorean")}
    /\ \E p \in MousePoints, q \in MousePoints, r \in LaunchDraws :
          LET start == screenToWorld(p[1], p[2])
              current == screenToWorld(q[1], q[2])
              pullVector == VSub(start, current)
          IN  bodies = <<Body(LaunchMass(r), start, VScale(pullVector, 2, 1))>>
    /\ dt = DtInit
    /\ paused = FALSE
    /\ isDragging = FALSE
    /\ dragStart = Null
    /\ dragCurrent = Null
    /\ pc = "idle"
    /\ i = 0
    /\ argDt = 0
    /\ state = <<>>
    /\ k1 = <<>> /\ k2 = <<>> /\ k3 = <<>> /\ k4 = <<>>
    /\ frames = 0
    /\ events = 0

NextTrail == PauseClick \/ ClearClick \/ Frame \/ AnimationFrame(MaxTrailFrames)

SpecTrail == InitTrail /\ [][NextTrail]_vars

----------------------------------------------------------------------------
(* Properties *)

Masses(bs) == [n \in 1..Len(bs) |-> bs[n].mass]

\* C1: the paused flag gates stepping and trail recording.  integrate() is
\* never running while paused is true, and in a frame of loop() that runs
\* with paused = true no body's position, velocity or trail changes: the
\* frame goes from the test of the flag straight to draw() and ends.
C1_PausedGatesStepping ==
    /\ [](InIntegrate => ~paused)
    /\ [][(paused /\ pc # "idle")
            => (bodies' = bodies /\ pc' \in {"draw", "idle"} /\ pc' # pc)]_vars

\* a frame started while paused has reached draw() with bodies that have
\* been stepped before
C1_Witness ==
    /\ paused /\ pc = "draw" /\ frames >= 1
    /\ bodies # <<>> /\ bodies[1].trail # <<>>

\* C2: the integrator adapts its timestep.  Stated for one frame: once a
\* frame has run its integrate calls on two or more bodies, dt has been
\* rescaled from its initial value by the error control.
C2_TimestepAdapts ==
    (pc = "draw" /\ i = 4 /\ Len(bodies) >= 2) => dt # DtInit

C4_SingleWriteBack ==
    /\ [][(pc \in {"integrate", "k1", "k2", "k3", "k4", "combine"})
            => bodies' = bodies]_vars
    /\ [](pc = "writeback"
            => state = Combine(Flatten(bodies), argDt, k1, k2, k3, k4))
    /\ [][pc = "writeback"
            => /\ Flatten(bodies') = state
               /\ Masses(bodies') = Masses(bodies)
               /\ pc' \in {"integrate", "draw"}]_vars

\* a combined state that differs from the bodies is about to be written
C4_Witness ==
    pc = "writeback" /\ Len(bodies) >= 2 /\ Flatten(bodies) # state

\* C5: a trail never holds more than 150 points; a write-back that moves a
\* body more than 0.05 from its last trail point (or finds the trail empty)
\* leaves the new position as the last point, and when the trail was full
\* the oldest point is the one dropped.
C5_TrailCapped ==
    /\ [](\A n \in 1..Len(bodies) : Len(bodies[n].trail) <= 150)
    /\ [][pc = "writeback" =>
            \A n \in 1..Len(bodies) :
               LET old == bodies[n].trail
                   new == bodies'[n].trail
                   p == bodies'[n].pos
                   far == old = <<>> \/ MagSq(VSub(p, old[Len(old)])) > 2500
               IN  /\ far /\ Len(old) < 150 => new = Append(old, p)
                   /\ far /\ Len(old) = 150 => new = Append(Tail(old), p)
                   /\ ~far => new = old]_vars

\* a body that moved past the threshold in more than 150 steps: its trail
\* is full, ends at its position, and no longer starts at its first point
C5_Witness ==
    /\ pc = "idle" /\ frames = 39 /\ Len(bodies) = 1
    /\ Len(bodies[1].trail) = 150
    /\ bodies[1].trail[150] = bodies[1].pos
    /\ MagSq(VSub(bodies[1].trail[2], bodies[1].trail[1])) > 2500
    /\ MagSq(VSub(bodies[1].trail[1], bodies[1].pos)) > 150 * 150 * 2500

\* C6: the body list is stable during a step.  While integrate() holds a
\* state vector its length is 4 times the number of bodies, every
\* derivative vector computed so far has that length, and no step taken
\* while a frame is running changes the number, order or masses of the
\* bodies or any input field.
C6_BodyListStable ==
    /\ [](pc \in {"k1", "k2", "k3", "k4", "combine", "writeback"}
            => Len(state) = 4 * Len(bodies))
    /\ [](pc \in {"k2", "k3", "k4", "combine", "writeback"}
            => Len(k1) = 4 * Len(bodies))
    /\ [](pc = "writeback" => Len(k4) = 4 * Len(bodies))
    /\ [][pc # "idle"
            => /\ Masses(bodies') = Masses(bodies)
               /\ UNCHANGED <<scale, offsetX, offsetY, paused, isDragging,
                              dragStart, dragCurrent>>]_vars

\* the five bodies of the random scenario are in the middle of a step
C6_Witness ==
    pc = "k3" /\ Len(bodies) = 5 /\ Len(state) = 20 /\ events >= 1

\* C7: every body has mass > 0, and a step that keeps a body keeps its
\* mass: frames keep all masses, a launch keeps the masses of the bodies
\* already there, and the other handlers that keep the list keep it whole.
C7_MassPositive ==
    /\ [](\A n \in 1..Len(bodies) : bodies[n].mass > 0)
    /\ [][pc # "idle" => Masses(bodies') = Masses(bodies)]_vars
    /\ [][MouseUp => SubSeq(Masses(bodies'), 1, Len(bodies)) = Masses(bodies)]_vars
    /\ [][(resize \/ PauseClick \/ MouseDown \/ MouseMove)
            => bodies' = bodies]_vars

\* the lightest body Math.random() can give the random scenario
C7_Witness ==
    Len(bodies) = 5 /\ \E n \in 1..5 : bodies[n].mass = 500

\* C8: with one body in the list getDerivatives gives it zero acceleration
\* in all four stages, and an integrate call keeps its velocity and moves
\* it by dt * velocity.
C8_SingleBodyStraightLine ==
    /\ [](pc \in {"k2", "k3", "k4", "combine", "writeback"} /\ Len(bodies) = 1
            => k1[3] = 0 /\ k1[4] = 0)
    /\ [](pc = "writeback" /\ Len(bodies) = 1
            => \A c \in {3, 4} : k2[c] = 0 /\ k3[c] = 0 /\ k4[c] = 0)
    /\ [][pc = "writeback" /\ Len(bodies) = 1
            => /\ bodies'[1].vel = bodies[1].vel
               /\ bodies'[1].pos.x
                    = bodies[1].pos.x + RDiv(15 * bodies[1].vel.x, 1000)
               /\ bodies'[1].pos.y
                    = bodies[1].pos.y + RDiv(15 * bodies[1].vel.y, 1000)]_vars

\* a lone moving body has been stepped through two frames
C8_Witness ==
    /\ pc = "idle" /\ frames >= 2 /\ Len(bodies) = 1
    /\ bodies[1].vel.x # 0
    /\ bodies[1].pos.x = bodies[1].trail[1].x
                           + 7 * RDiv(15 * bodies[1].vel.x, 1000)

\* C9: integrate on an empty body list returns at once and changes no
\* field of the simulation.
C9_EmptyListNoOp ==
    [][pc = "integrate" /\ bodies = <<>>
         => /\ UNCHANGED <<simFields, locals>>
            /\ i' = i + 1
            /\ pc' = IF i = 3 THEN "draw" ELSE "integrate"]_vars

\* after Clear a frame has made its four calls on the empty list
C9_Witness ==
    bodies = <<>> /\ pc = "draw" /\ i = 4 /\ ~paused /\ events >= 1

\* C10: the drag-to-launch state machine.  isDragging holds exactly when
\* dragStart and dragCurrent are set; a mouseup ends the drag and clears
\* both; a mouseup during a drag appends one body at the drag start with
\* velocity 2 * (dragStart - dragCurrent) and an empty trail; a mouseup or
\* mousemove outside a drag changes no field; nothing else adds one body.
C10_DragLaunch ==
    /\ [](isDragging <=> dragStart # Null)
    /\ [](isDragging <=> dragCurrent # Null)
    /\ [][MouseUp => ~isDragging' /\ dragStart' = Null /\ dragCurrent' = Null]_vars
    /\ [][MouseUp /\ isDragging
            => /\ Len(bodies') = Len(bodies) + 1
               /\ SubSeq(bodies', 1, Len(bodies)) = bodies
               /\ bodies'[Len(bodies')].pos = dragStart[1]
               /\ bodies'[Len(bodies')].vel
                    = Vec2(2 * (dragStart[1].x - dragCurrent[1].x),
                           2 * (dragStart[1].y - dragCurrent[1].y))
               /\ bodies'[Len(bodies')].trail = <<>>]_vars
    /\ [][(MouseUp \/ MouseMove) /\ ~isDragging => UNCHANGED simFields]_vars
    /\ [][(Len(bodies') = Len(bodies) + 1
             /\ SubSeq(bodies', 1, Len(bodies)) = bodies)
            => isDragging /\ ~isDragging']_vars

\* a body launched with a pull has joined the three of the first scenario
C10_Witness ==
    /\ Len(bodies) = 4 /\ ~isDragging /\ dragStart = Null
    /\ bodies[4].vel.x # 0 /\ bodies[4].trail = <<>>

====
